---------------------------- MODULE Spec2Model ----------------------------
(***************************************************************************)
(* GoDis: a linear-sweep disassembler for a subset of 32-bit x86.          *)
(*                                                                         *)
(* The model follows the three packages of the repository:                 *)
(*   operations  - the opcode tables, GetNext, GetExtendedOpcode           *)
(*   datatypes   - Instruction, ModRm, the primitive parsers, formatting   *)
(*   encoders    - the ten Encode / StringifyOperands pairs                *)
(*   main        - Parse_Instructions (the sweep) and Print_Instructions   *)
(*                                                                         *)
(* A byte is a number in 0..255.  A Go pointer that may be nil is a        *)
(* sequence of length 0 (nil) or 1 (the pointee).  The bytes.Buffer is     *)
(* its contents `data` together with its read offset `dataOff`; the next   *)
(* byte ReadByte returns is data[dataOff + 1].                             *)
(***************************************************************************)
EXTENDS Integers, Sequences, FiniteSets, TLC

\* Longest input drawn from the wide alphabet, and from the narrow one.
MaxLenWide == 4
MaxLenNarrow == 6
MaxLenBack == 4

VARIABLES
    data,            \* contents of the input buffer (never written)
    dataOff,         \* read offset of the bytes.Buffer
    offset,          \* Parse_Instructions: var offset int
    Instructions,    \* the process-wide map offset -> *Instruction
    opcode,          \* Parse_Instructions: var opcode *operations.OpCode
    prefix,          \* Parse_Instructions: var prefix *datatypes.Prefix
    opcode_literal,  \* Parse_Instructions: var opcode_literal byte
    err,             \* Parse_Instructions: var err error ("" is nil)
    pc,              \* "sweep" inside the loop, "done" after the break,
                     \* "printed" after Print_Instructions returned,
                     \* "panic" after a nil dereference ended the process;
                     \* "call" / "returned" around a lone ParseDisplacement
    run,             \* number of the Parse_Instructions call in progress
    firstRun,        \* the map as the first call left it (second call only)
    listing          \* the lines Print_Instructions wrote to the tabwriter

vars == <<data, dataOff, offset, Instructions, opcode, prefix,
          opcode_literal, err, pc, run, firstRun, listing>>

-----------------------------------------------------------------------------
(* fmt verbs *)

HexDigits == <<"0", "1", "2", "3", "4", "5", "6", "7",
               "8", "9", "a", "b", "c", "d", "e", "f">>

\* %02x of a byte
Hex2(b) == HexDigits[(b \div 16) + 1] \o HexDigits[(b % 16) + 1]

RECURSIVE HexStr(_)
\* %x of a non-negative integer
HexStr(n) == IF n < 16 THEN HexDigits[n + 1]
             ELSE HexStr(n \div 16) \o HexDigits[(n % 16) + 1]

RECURSIVE ZeroPad(_, _)
ZeroPad(s, w) == IF Len(s) >= w THEN s ELSE ZeroPad("0" \o s, w)

\* %08x of an int: the sign counts towards the width of 8
Fmt08x(n) == IF n >= 0 THEN ZeroPad(HexStr(n), 8)
             ELSE "-" \o ZeroPad(HexStr(-n), 7)

\* %d of a small non-negative integer
FmtD(n) == HexStr(n)

EOFErr == "EOF"
ErrUnexpectedEOF == "unexpected EOF"
ONF == "ONF"

\* fmt.Errorf("db %02x", b)
DbErr(b) == "db " \o Hex2(b)

DbErrs == {DbErr(b) : b \in 0..255}

IsDb(e) == e \in DbErrs

-----------------------------------------------------------------------------
(* package datatypes *)

AM_REG == 0
AM_BYTE_OFFSET == 1
AM_DWORD_OFFSET == 2
AM_DIRECT == 3

REG_EBP == 5

Registers == [r \in 0..7 |->
    <<"eax", "ecx", "edx", "ebx", "esp", "ebp", "esi", "edi">>[r + 1]]

\* the zero value &datatypes.Instruction{}
NewInstruction ==
    [Literal |-> <<>>, Offset |-> 0, Label |-> "", Pre |-> <<>>,
     Mnemonic |-> "", Op |-> 0, Modrm |-> <<>>, Displacement |-> <<>>,
     Immediate |-> <<>>, DispSize |-> 0, ImmSize |-> 0, Operands |-> ""]

ParseModRM(modrm) ==
    [Literal |-> modrm,
     Mod |-> (modrm \div 64) % 4,
     Reg |-> (modrm \div 8) % 8,
     RM  |-> modrm % 8]

\* bytes.Buffer.Next(n) at read offset p: the next min(n, remaining) bytes
BufNext(p, n) ==
    LET k == IF Len(data) - p < n THEN Len(data) - p ELSE n
    IN  [bytes |-> SubSeq(data, p + 1, p + k), off |-> p + k]

\* a length check that never reports a short read
Exactly_NeverShort(got, n) ==
    [bytes |-> got.bytes, off |-> got.off, err |-> ""]

\* what Next(n) returned, UnexpectedEOF if it is shorter than n
Exactly(got, n) ==
    [bytes |-> got.bytes, off |-> got.off,
     err |-> IF Len(got.bytes) # n THEN ErrUnexpectedEOF ELSE ""]

ParseDisplacement(modrm, p, size) ==
    IF modrm # <<>> THEN
        CASE modrm[1].Mod = AM_REG ->
                IF modrm[1].RM = REG_EBP
                THEN Exactly(BufNext(p, 4), 4)
                ELSE [bytes |-> <<>>, off |-> p, err |-> ""]
          [] modrm[1].Mod = AM_BYTE_OFFSET ->
                IF p >= Len(data)
                THEN [bytes |-> <<>>, off |-> p, err |-> ErrUnexpectedEOF]
                ELSE [bytes |-> <<data[p + 1]>>, off |-> p + 1, err |-> ""]
          [] modrm[1].Mod = AM_DWORD_OFFSET -> Exactly(BufNext(p, 4), 4)
          [] modrm[1].Mod = AM_DIRECT ->
                [bytes |-> <<>>, off |-> p, err |-> ""]
          [] OTHER ->
                [bytes |-> <<>>, off |-> p, err |-> "Bad Address Mode."]
    ELSE Exactly(BufNext(p, size), size)

ParseImmediate(p, size) == Exactly(BufNext(p, size), size)

InvalidLength(n) ==
    "Invalid byte slice length for integer conversion: " \o FmtD(n)

\* two's complement of the top byte, so that no intermediate exceeds 2^31
SignedByte(b) == IF b >= 128 THEN b - 256 ELSE b

BytesToIntSigned(intbytes) ==
    CASE Len(intbytes) = 1 ->
            [val |-> SignedByte(intbytes[1]), err |-> ""]
      [] Len(intbytes) = 2 ->
            [val |-> intbytes[1] + 256 * SignedByte(intbytes[2]), err |-> ""]
      [] Len(intbytes) = 4 ->
            [val |-> intbytes[1] + 256 * intbytes[2] + 65536 * intbytes[3]
                     + 16777216 * SignedByte(intbytes[4]),
             err |-> ""]
      [] OTHER ->
            [val |-> 0, err |-> InvalidLength(Len(intbytes))]

\* Sprintf("0x%08x", BytesToInt(intbytes)): the unsigned little-endian value
\* is below 2^32, so %08x prints its bytes from the most significant down,
\* zero-padded to eight digits.
StringifyIntegerBytes(intbytes) ==
    CASE Len(intbytes) = 1 -> "0x000000" \o Hex2(intbytes[1])
      [] Len(intbytes) = 2 -> "0x0000" \o Hex2(intbytes[2]) \o Hex2(intbytes[1])
      [] Len(intbytes) = 4 -> "0x" \o Hex2(intbytes[4]) \o Hex2(intbytes[3])
                                   \o Hex2(intbytes[2]) \o Hex2(intbytes[1])
      [] OTHER -> ""

StringifyRM(modrm, disp) ==
    IF modrm # <<>> THEN
        LET rm == Registers[modrm[1].RM]
        IN  CASE modrm[1].Mod = AM_REG ->
                    IF modrm[1].RM = REG_EBP
                    THEN "[ " \o StringifyIntegerBytes(disp) \o " ]"
                    ELSE "[ " \o rm \o " ]"
              [] modrm[1].Mod \in {AM_BYTE_OFFSET, AM_DWORD_OFFSET} ->
                    "[ " \o rm \o "+" \o StringifyIntegerBytes(disp) \o " ]"
              [] modrm[1].Mod = AM_DIRECT -> rm
              [] OTHER -> ""
    ELSE ""

-----------------------------------------------------------------------------
(* package operations: the tables *)

Vex == [Literal |-> 15, Mnemonic |-> ""]
Repne == [Literal |-> 242, Mnemonic |-> "repne"]

Prefixes == (15 :> Vex) @@ (242 :> Repne)

ExtKeys == {129, 255, 174, 247, 199, 143, 209}

allOps == <<
    [Literal |-> 5, Mnemonic |-> "add eax,", Encoder |-> "I", ModrmReq |-> FALSE, ExtensionReq |-> FALSE, PrefixReq |-> FALSE, Extension |-> 0, DispSize |-> 0, ImmSize |-> 4],   \* 0x05 line 73
    [Literal |-> 129, Mnemonic |-> "add", Encoder |-> "MI", ModrmReq |-> TRUE, ExtensionReq |-> TRUE, PrefixReq |-> FALSE, Extension |-> 0, DispSize |-> 0, ImmSize |-> 4],   \* 0x81 line 82
    [Literal |-> 1, Mnemonic |-> "add", Encoder |-> "MR", ModrmReq |-> TRUE, ExtensionReq |-> FALSE, PrefixReq |-> FALSE, Extension |-> 0, DispSize |-> 0, ImmSize |-> 0],   \* 0x01 line 92
    [Literal |-> 3, Mnemonic |-> "add", Encoder |-> "RM", ModrmReq |-> TRUE, ExtensionReq |-> FALSE, PrefixReq |-> FALSE, Extension |-> 0, DispSize |-> 0, ImmSize |-> 0],   \* 0x03 line 101
    [Literal |-> 37, Mnemonic |-> "and eax,", Encoder |-> "I", ModrmReq |-> FALSE, ExtensionReq |-> FALSE, PrefixReq |-> FALSE, Extension |-> 0, DispSize |-> 0, ImmSize |-> 4],   \* 0x25 line 112
    [Literal |-> 129, Mnemonic |-> "and", Encoder |-> "MI", ModrmReq |-> TRUE, ExtensionReq |-> TRUE, PrefixReq |-> FALSE, Extension |-> 4, DispSize |-> 0, ImmSize |-> 4],   \* 0x81 line 121
    [Literal |-> 33, Mnemonic |-> "and", Encoder |-> "MR", ModrmReq |-> TRUE, ExtensionReq |-> FALSE, PrefixReq |-> FALSE, Extension |-> 0, DispSize |-> 0, ImmSize |-> 0],   \* 0x21 line 131
    [Literal |-> 35, Mnemonic |-> "and", Encoder |-> "RM", ModrmReq |-> TRUE, ExtensionReq |-> FALSE, PrefixReq |-> FALSE, Extension |-> 0, DispSize |-> 0, ImmSize |-> 0],   \* 0x23 line 140
    [Literal |-> 232, Mnemonic |-> "call", Encoder |-> "D", ModrmReq |-> FALSE, ExtensionReq |-> FALSE, PrefixReq |-> FALSE, Extension |-> 0, DispSize |-> 4, ImmSize |-> 0],   \* 0xE8 line 151
    [Literal |-> 255, Mnemonic |-> "call", Encoder |-> "M", ModrmReq |-> TRUE, ExtensionReq |-> TRUE, PrefixReq |-> FALSE, Extension |-> 2, DispSize |-> 0, ImmSize |-> 0],   \* 0xFF line 160
    [Literal |-> 174, Mnemonic |-> "clflush", Encoder |-> "M", ModrmReq |-> TRUE, ExtensionReq |-> TRUE, PrefixReq |-> TRUE, Extension |-> 7, DispSize |-> 0, ImmSize |-> 0],   \* 0xAE line 172
    [Literal |-> 61, Mnemonic |-> "cmp eax,", Encoder |-> "I", ModrmReq |-> FALSE, ExtensionReq |-> FALSE, PrefixReq |-> FALSE, Extension |-> 0, DispSize |-> 0, ImmSize |-> 4],   \* 0x3D line 185
    [Literal |-> 129, Mnemonic |-> "cmp", Encoder |-> "MI", ModrmReq |-> TRUE, ExtensionReq |-> TRUE, PrefixReq |-> FALSE, Extension |-> 7, DispSize |-> 0, ImmSize |-> 4],   \* 0x81 line 194
    [Literal |-> 57, Mnemonic |-> "cmp", Encoder |-> "MR", ModrmReq |-> TRUE, ExtensionReq |-> FALSE, PrefixReq |-> FALSE, Extension |-> 0, DispSize |-> 0, ImmSize |-> 0],   \* 0x39 line 204
    [Literal |-> 59, Mnemonic |-> "cmp", Encoder |-> "RM", ModrmReq |-> TRUE, ExtensionReq |-> FALSE, PrefixReq |-> FALSE, Extension |-> 0, DispSize |-> 0, ImmSize |-> 0],   \* 0x3B line 213
    [Literal |-> 255, Mnemonic |-> "dec", Encoder |-> "M", ModrmReq |-> TRUE, ExtensionReq |-> TRUE, PrefixReq |-> FALSE, Extension |-> 1, DispSize |-> 0, ImmSize |-> 0],   \* 0xFF line 224
    [Literal |-> 72, Mnemonic |-> "dec", Encoder |-> "O", ModrmReq |-> FALSE, ExtensionReq |-> FALSE, PrefixReq |-> FALSE, Extension |-> 0, DispSize |-> 0, ImmSize |-> 0],   \* 0x48 line 234
    [Literal |-> 247, Mnemonic |-> "idiv", Encoder |-> "M", ModrmReq |-> TRUE, ExtensionReq |-> TRUE, PrefixReq |-> FALSE, Extension |-> 7, DispSize |-> 0, ImmSize |-> 0],   \* 0xF7 line 245
    [Literal |-> 247, Mnemonic |-> "imul", Encoder |-> "M", ModrmReq |-> TRUE, ExtensionReq |-> TRUE, PrefixReq |-> FALSE, Extension |-> 5, DispSize |-> 0, ImmSize |-> 0],   \* 0xF7 line 257
    [Literal |-> 175, Mnemonic |-> "imul", Encoder |-> "RM", ModrmReq |-> TRUE, ExtensionReq |-> FALSE, PrefixReq |-> TRUE, Extension |-> 0, DispSize |-> 0, ImmSize |-> 0],   \* 0xAF line 267
    [Literal |-> 105, Mnemonic |-> "imul", Encoder |-> "RMI", ModrmReq |-> TRUE, ExtensionReq |-> FALSE, PrefixReq |-> FALSE, Extension |-> 0, DispSize |-> 0, ImmSize |-> 4],   \* 0x69 line 277
    [Literal |-> 255, Mnemonic |-> "inc", Encoder |-> "M", ModrmReq |-> TRUE, ExtensionReq |-> TRUE, PrefixReq |-> FALSE, Extension |-> 0, DispSize |-> 0, ImmSize |-> 0],   \* 0xFF line 288
    [Literal |-> 64, Mnemonic |-> "inc", Encoder |-> "O", ModrmReq |-> FALSE, ExtensionReq |-> FALSE, PrefixReq |-> FALSE, Extension |-> 0, DispSize |-> 0, ImmSize |-> 0],   \* 0x40 line 298
    [Literal |-> 235, Mnemonic |-> "jmp", Encoder |-> "D", ModrmReq |-> FALSE, ExtensionReq |-> FALSE, PrefixReq |-> FALSE, Extension |-> 0, DispSize |-> 1, ImmSize |-> 0],   \* 0xEB line 309
    [Literal |-> 233, Mnemonic |-> "jmp", Encoder |-> "D", ModrmReq |-> FALSE, ExtensionReq |-> FALSE, PrefixReq |-> FALSE, Extension |-> 0, DispSize |-> 4, ImmSize |-> 0],   \* 0xE9 line 318
    [Literal |-> 255, Mnemonic |-> "jmp", Encoder |-> "M", ModrmReq |-> TRUE, ExtensionReq |-> TRUE, PrefixReq |-> FALSE, Extension |-> 4, DispSize |-> 0, ImmSize |-> 0],   \* 0xFF line 327
    [Literal |-> 116, Mnemonic |-> "jz", Encoder |-> "D", ModrmReq |-> FALSE, ExtensionReq |-> FALSE, PrefixReq |-> FALSE, Extension |-> 0, DispSize |-> 1, ImmSize |-> 0],   \* 0x74 line 339
    [Literal |-> 132, Mnemonic |-> "jz", Encoder |-> "D", ModrmReq |-> FALSE, ExtensionReq |-> FALSE, PrefixReq |-> TRUE, Extension |-> 0, DispSize |-> 4, ImmSize |-> 0],   \* 0x84 line 348
    [Literal |-> 117, Mnemonic |-> "jnz", Encoder |-> "D", ModrmReq |-> FALSE, ExtensionReq |-> FALSE, PrefixReq |-> FALSE, Extension |-> 0, DispSize |-> 1, ImmSize |-> 0],   \* 0x75 line 360
    [Literal |-> 133, Mnemonic |-> "jnz", Encoder |-> "D", ModrmReq |-> FALSE, ExtensionReq |-> FALSE, PrefixReq |-> TRUE, Extension |-> 0, DispSize |-> 4, ImmSize |-> 0],   \* 0x85 line 369
    [Literal |-> 141, Mnemonic |-> "lea", Encoder |-> "RM", ModrmReq |-> TRUE, ExtensionReq |-> FALSE, PrefixReq |-> FALSE, Extension |-> 0, DispSize |-> 0, ImmSize |-> 0],   \* 0x8D line 381
    [Literal |-> 184, Mnemonic |-> "mov", Encoder |-> "OI", ModrmReq |-> FALSE, ExtensionReq |-> FALSE, PrefixReq |-> FALSE, Extension |-> 0, DispSize |-> 0, ImmSize |-> 4],   \* 0xB8 line 392
    [Literal |-> 199, Mnemonic |-> "mov", Encoder |-> "MI", ModrmReq |-> TRUE, ExtensionReq |-> TRUE, PrefixReq |-> FALSE, Extension |-> 0, DispSize |-> 0, ImmSize |-> 4],   \* 0xC7 line 401
    [Literal |-> 137, Mnemonic |-> "mov", Encoder |-> "MR", ModrmReq |-> TRUE, ExtensionReq |-> FALSE, PrefixReq |-> FALSE, Extension |-> 0, DispSize |-> 0, ImmSize |-> 0],   \* 0x89 line 411
    [Literal |-> 139, Mnemonic |-> "mov", Encoder |-> "RM", ModrmReq |-> TRUE, ExtensionReq |-> FALSE, PrefixReq |-> FALSE, Extension |-> 0, DispSize |-> 0, ImmSize |-> 0],   \* 0x8B line 420
    [Literal |-> 165, Mnemonic |-> "movsd", Encoder |-> "NP", ModrmReq |-> FALSE, ExtensionReq |-> FALSE, PrefixReq |-> FALSE, Extension |-> 0, DispSize |-> 0, ImmSize |-> 0],   \* 0xA5 line 431
    [Literal |-> 247, Mnemonic |-> "mul", Encoder |-> "M", ModrmReq |-> TRUE, ExtensionReq |-> TRUE, PrefixReq |-> FALSE, Extension |-> 4, DispSize |-> 0, ImmSize |-> 0],   \* 0xF7 line 442
    [Literal |-> 247, Mnemonic |-> "neg", Encoder |-> "M", ModrmReq |-> TRUE, ExtensionReq |-> TRUE, PrefixReq |-> FALSE, Extension |-> 3, DispSize |-> 0, ImmSize |-> 0],   \* 0xF7 line 454
    [Literal |-> 144, Mnemonic |-> "nop", Encoder |-> "NP", ModrmReq |-> FALSE, ExtensionReq |-> FALSE, PrefixReq |-> FALSE, Extension |-> 0, DispSize |-> 0, ImmSize |-> 0],   \* 0x90 line 466
    [Literal |-> 247, Mnemonic |-> "not", Encoder |-> "M", ModrmReq |-> TRUE, ExtensionReq |-> TRUE, PrefixReq |-> FALSE, Extension |-> 2, DispSize |-> 0, ImmSize |-> 0],   \* 0xF7 line 477
    [Literal |-> 13, Mnemonic |-> "or eax,", Encoder |-> "I", ModrmReq |-> FALSE, ExtensionReq |-> FALSE, PrefixReq |-> FALSE, Extension |-> 0, DispSize |-> 0, ImmSize |-> 4],   \* 0x0D line 489
    [Literal |-> 129, Mnemonic |-> "or", Encoder |-> "MI", ModrmReq |-> TRUE, ExtensionReq |-> TRUE, PrefixReq |-> FALSE, Extension |-> 1, DispSize |-> 0, ImmSize |-> 4],   \* 0x81 line 498
    [Literal |-> 9, Mnemonic |-> "or", Encoder |-> "MR", ModrmReq |-> TRUE, ExtensionReq |-> FALSE, PrefixReq |-> FALSE, Extension |-> 0, DispSize |-> 0, ImmSize |-> 0],   \* 0x09 line 508
    [Literal |-> 11, Mnemonic |-> "or", Encoder |-> "RM", ModrmReq |-> TRUE, ExtensionReq |-> FALSE, PrefixReq |-> FALSE, Extension |-> 0, DispSize |-> 0, ImmSize |-> 0],   \* 0x0B line 517
    [Literal |-> 231, Mnemonic |-> "out %s, eax", Encoder |-> "I", ModrmReq |-> FALSE, ExtensionReq |-> FALSE, PrefixReq |-> FALSE, Extension |-> 0, DispSize |-> 0, ImmSize |-> 1],   \* 0xE7 line 528
    [Literal |-> 143, Mnemonic |-> "pop", Encoder |-> "M", ModrmReq |-> TRUE, ExtensionReq |-> TRUE, PrefixReq |-> FALSE, Extension |-> 0, DispSize |-> 0, ImmSize |-> 0],   \* 0x8F line 539
    [Literal |-> 88, Mnemonic |-> "pop", Encoder |-> "O", ModrmReq |-> FALSE, ExtensionReq |-> FALSE, PrefixReq |-> FALSE, Extension |-> 0, DispSize |-> 0, ImmSize |-> 0],   \* 0x58 line 549
    [Literal |-> 255, Mnemonic |-> "push", Encoder |-> "M", ModrmReq |-> TRUE, ExtensionReq |-> TRUE, PrefixReq |-> FALSE, Extension |-> 6, DispSize |-> 0, ImmSize |-> 0],   \* 0xFF line 560
    [Literal |-> 80, Mnemonic |-> "push", Encoder |-> "O", ModrmReq |-> FALSE, ExtensionReq |-> FALSE, PrefixReq |-> FALSE, Extension |-> 0, DispSize |-> 0, ImmSize |-> 0],   \* 0x50 line 570
    [Literal |-> 104, Mnemonic |-> "push", Encoder |-> "I", ModrmReq |-> FALSE, ExtensionReq |-> FALSE, PrefixReq |-> FALSE, Extension |-> 0, DispSize |-> 0, ImmSize |-> 4],   \* 0x68 line 579
    [Literal |-> 167, Mnemonic |-> "cmpsd", Encoder |-> "NP", ModrmReq |-> FALSE, ExtensionReq |-> FALSE, PrefixReq |-> FALSE, Extension |-> 0, DispSize |-> 0, ImmSize |-> 0],   \* 0xA7 line 590
    [Literal |-> 203, Mnemonic |-> "retf", Encoder |-> "NP", ModrmReq |-> FALSE, ExtensionReq |-> FALSE, PrefixReq |-> FALSE, Extension |-> 0, DispSize |-> 0, ImmSize |-> 0],   \* 0xCB line 602
    [Literal |-> 202, Mnemonic |-> "retf", Encoder |-> "I", ModrmReq |-> FALSE, ExtensionReq |-> FALSE, PrefixReq |-> FALSE, Extension |-> 0, DispSize |-> 0, ImmSize |-> 2],   \* 0xCA line 611
    [Literal |-> 195, Mnemonic |-> "retn", Encoder |-> "NP", ModrmReq |-> FALSE, ExtensionReq |-> FALSE, PrefixReq |-> FALSE, Extension |-> 0, DispSize |-> 0, ImmSize |-> 0],   \* 0xC3 line 620
    [Literal |-> 194, Mnemonic |-> "retn", Encoder |-> "I", ModrmReq |-> FALSE, ExtensionReq |-> FALSE, PrefixReq |-> FALSE, Extension |-> 0, DispSize |-> 0, ImmSize |-> 2],   \* 0xC2 line 629
    [Literal |-> 209, Mnemonic |-> "sal %s, 1", Encoder |-> "M", ModrmReq |-> TRUE, ExtensionReq |-> TRUE, PrefixReq |-> FALSE, Extension |-> 4, DispSize |-> 0, ImmSize |-> 0],   \* 0xD1 line 640
    [Literal |-> 209, Mnemonic |-> "sar %s, 1", Encoder |-> "M", ModrmReq |-> TRUE, ExtensionReq |-> TRUE, PrefixReq |-> FALSE, Extension |-> 7, DispSize |-> 0, ImmSize |-> 0],   \* 0xD1 line 650
    [Literal |-> 209, Mnemonic |-> "shr %s, 1", Encoder |-> "M", ModrmReq |-> TRUE, ExtensionReq |-> TRUE, PrefixReq |-> FALSE, Extension |-> 5, DispSize |-> 0, ImmSize |-> 0],   \* 0xD1 line 660
    [Literal |-> 29, Mnemonic |-> "sbb eax,", Encoder |-> "I", ModrmReq |-> FALSE, ExtensionReq |-> FALSE, PrefixReq |-> FALSE, Extension |-> 0, DispSize |-> 0, ImmSize |-> 4],   \* 0x1D line 672
    [Literal |-> 129, Mnemonic |-> "sbb", Encoder |-> "MI", ModrmReq |-> TRUE, ExtensionReq |-> TRUE, PrefixReq |-> FALSE, Extension |-> 3, DispSize |-> 0, ImmSize |-> 4],   \* 0x81 line 681
    [Literal |-> 25, Mnemonic |-> "sbb", Encoder |-> "MR", ModrmReq |-> TRUE, ExtensionReq |-> FALSE, PrefixReq |-> FALSE, Extension |-> 0, DispSize |-> 0, ImmSize |-> 0],   \* 0x19 line 691
    [Literal |-> 27, Mnemonic |-> "sbb", Encoder |-> "RM", ModrmReq |-> TRUE, ExtensionReq |-> FALSE, PrefixReq |-> FALSE, Extension |-> 0, DispSize |-> 0, ImmSize |-> 0],   \* 0x1B line 700
    [Literal |-> 45, Mnemonic |-> "sub eax,", Encoder |-> "I", ModrmReq |-> FALSE, ExtensionReq |-> FALSE, PrefixReq |-> FALSE, Extension |-> 0, DispSize |-> 0, ImmSize |-> 4],   \* 0x2D line 711
    [Literal |-> 129, Mnemonic |-> "sub", Encoder |-> "MI", ModrmReq |-> TRUE, ExtensionReq |-> TRUE, PrefixReq |-> FALSE, Extension |-> 5, DispSize |-> 0, ImmSize |-> 4],   \* 0x81 line 720
    [Literal |-> 41, Mnemonic |-> "sub", Encoder |-> "MR", ModrmReq |-> TRUE, ExtensionReq |-> FALSE, PrefixReq |-> FALSE, Extension |-> 0, DispSize |-> 0, ImmSize |-> 0],   \* 0x29 line 730
    [Literal |-> 43, Mnemonic |-> "sub", Encoder |-> "RM", ModrmReq |-> TRUE, ExtensionReq |-> FALSE, PrefixReq |-> FALSE, Extension |-> 0, DispSize |-> 0, ImmSize |-> 0],   \* 0x2B line 739
    [Literal |-> 169, Mnemonic |-> "test eax,", Encoder |-> "I", ModrmReq |-> FALSE, ExtensionReq |-> FALSE, PrefixReq |-> FALSE, Extension |-> 0, DispSize |-> 0, ImmSize |-> 4],   \* 0xA9 line 750
    [Literal |-> 247, Mnemonic |-> "test", Encoder |-> "MI", ModrmReq |-> TRUE, ExtensionReq |-> TRUE, PrefixReq |-> FALSE, Extension |-> 0, DispSize |-> 0, ImmSize |-> 4],   \* 0xF7 line 759
    [Literal |-> 133, Mnemonic |-> "test", Encoder |-> "MR", ModrmReq |-> TRUE, ExtensionReq |-> FALSE, PrefixReq |-> FALSE, Extension |-> 0, DispSize |-> 0, ImmSize |-> 0],   \* 0x85 line 769
    [Literal |-> 53, Mnemonic |-> "xor eax,", Encoder |-> "I", ModrmReq |-> FALSE, ExtensionReq |-> FALSE, PrefixReq |-> FALSE, Extension |-> 0, DispSize |-> 0, ImmSize |-> 4],   \* 0x35 line 780
    [Literal |-> 129, Mnemonic |-> "xor", Encoder |-> "MI", ModrmReq |-> TRUE, ExtensionReq |-> TRUE, PrefixReq |-> FALSE, Extension |-> 6, DispSize |-> 0, ImmSize |-> 4],   \* 0x81 line 789
    [Literal |-> 49, Mnemonic |-> "xor", Encoder |-> "MR", ModrmReq |-> TRUE, ExtensionReq |-> FALSE, PrefixReq |-> FALSE, Extension |-> 0, DispSize |-> 0, ImmSize |-> 0],   \* 0x31 line 799
    [Literal |-> 51, Mnemonic |-> "xor", Encoder |-> "RM", ModrmReq |-> TRUE, ExtensionReq |-> FALSE, PrefixReq |-> FALSE, Extension |-> 0, DispSize |-> 0, ImmSize |-> 0]   \* 0x33 line 808
>>

\* the opcode bytes under which init installs a plain O or OI record:
\* for i := int(op.Literal); i < int(op.Literal)+7; i++
ORun(lit) == {i \in 0..255 : lit <= i /\ i < lit + 7}

\* the keys of OpCodes under which the n-th record of allOps is stored
PlainKeys(n) ==
    LET op == allOps[n]
    IN  IF op.ExtensionReq \/ op.PrefixReq THEN {}
        ELSE IF op.Encoder \in {"O", "OI"} THEN ORun(op.Literal)
        ELSE {op.Literal}

\* a later record of allOps overwrites an earlier one under the same key
LastOf(S) == CHOOSE n \in S : \A m \in S : m <= n

OpCodes ==
    LET keys == UNION {PlainKeys(n) : n \in DOMAIN allOps}
    IN  [b \in keys |->
            allOps[LastOf({n \in DOMAIN allOps : b \in PlainKeys(n)})]]

OpCodesPrefixed ==
    LET idx(b) == {n \in DOMAIN allOps :
                      /\ ~allOps[n].ExtensionReq
                      /\ allOps[n].PrefixReq
                      /\ allOps[n].Literal = b}
        keys == {b \in 0..255 : idx(b) # {}}
    IN  [b \in keys |-> allOps[LastOf(idx(b))]]

OpCodesExt ==
    [b \in ExtKeys |->
        LET idx(e) == {n \in DOMAIN allOps :
                          /\ allOps[n].ExtensionReq
                          /\ allOps[n].Literal = b
                          /\ allOps[n].Extension = e}
            slots == {e \in 0..7 : idx(e) # {}}
        IN  [e \in slots |-> allOps[LastOf(idx(e))]]]

-----------------------------------------------------------------------------
(* package operations: dispatch.  A result is                              *)
(* [opcode, prefix, lit, err, off]: the three values and the error GetNext *)
(* returns, and the read offset it leaves the buffer at.                   *)

\* GetExtendedOpcode without the UnreadByte of its bad-extension branch
GetExtendedOpcode_NoUnreadOnMiss(b, p) ==
    IF b \in DOMAIN OpCodesExt THEN
        IF p >= Len(data)
        THEN [opcode |-> <<>>, err |-> ErrUnexpectedEOF, off |-> p]
        ELSE LET modrm == ParseModRM(data[p + 1])
             IN  IF modrm.Reg \in DOMAIN OpCodesExt[b]
                 THEN [opcode |-> <<OpCodesExt[b][modrm.Reg]>>, err |-> "",
                       off |-> (p + 1) - 1]
                 ELSE [opcode |-> <<>>, err |-> DbErr(b), off |-> p + 1]
    ELSE [opcode |-> <<>>, err |-> ONF, off |-> p]

GetExtendedOpcode(b, p) ==
    IF b \in DOMAIN OpCodesExt THEN
        IF p >= Len(data)
        THEN [opcode |-> <<>>, err |-> ErrUnexpectedEOF, off |-> p]
        ELSE LET modrm == ParseModRM(data[p + 1])
             IN  IF modrm.Reg \in DOMAIN OpCodesExt[b]
                 \* ReadByte then UnreadByte: the offset is back at p
                 THEN [opcode |-> <<OpCodesExt[b][modrm.Reg]>>, err |-> "",
                       off |-> (p + 1) - 1]
                 ELSE [opcode |-> <<>>, err |-> DbErr(b), off |-> (p + 1) - 1]
    ELSE [opcode |-> <<>>, err |-> ONF, off |-> p]

\* the values GetNext returns around a result x of GetExtendedOpcode
Extended(x, pre, code) ==
    [opcode |-> x.opcode, prefix |-> pre, lit |-> code, err |-> x.err,
     off |-> x.off]

GetNextVex(code, p) ==
    IF code \in DOMAIN OpCodesPrefixed
    THEN [opcode |-> <<OpCodesPrefixed[code]>>, prefix |-> <<Vex>>,
          lit |-> code, err |-> "", off |-> p]
    ELSE IF code = 174
    THEN Extended(GetExtendedOpcode(code, p), <<Vex>>, code)
    ELSE [opcode |-> <<>>, prefix |-> <<Vex>>, lit |-> 0,
          err |-> DbErr(Vex.Literal), off |-> p - 1]

GetNextRepne(code, p) ==
    IF code \in DOMAIN OpCodes
    THEN [opcode |-> <<OpCodes[code]>>, prefix |-> <<Repne>>,
          lit |-> code, err |-> "", off |-> p]
    ELSE [opcode |-> <<>>, prefix |-> <<Repne>>, lit |-> code,
          err |-> DbErr(code), off |-> p]

\* lines 887-895: x is what GetExtendedOpcode returned for next
PlainAfter(x, next, p) ==
    IF x.err # ONF
    THEN Extended(x, <<>>, next)
    ELSE IF next \in DOMAIN OpCodes
    THEN [opcode |-> <<OpCodes[next]>>, prefix |-> <<>>, lit |-> next,
          err |-> "", off |-> p]
    ELSE [opcode |-> <<>>, prefix |-> <<>>, lit |-> next,
          err |-> DbErr(next), off |-> p]

GetNextPlain(next, p) == PlainAfter(GetExtendedOpcode(next, p), next, p)

\* GetNext that reports a prefix byte at the end of the input as an unknown
\* byte instead of UnexpectedEOF
GetNext_PrefixAtEndIsDb(p) ==
    IF p >= Len(data)
    THEN [opcode |-> <<>>, prefix |-> <<>>, lit |-> 0, err |-> EOFErr,
          off |-> p]
    ELSE LET next == data[p + 1]
         IN  IF next \in DOMAIN Prefixes THEN
                 IF p + 1 >= Len(data)
                 THEN [opcode |-> <<>>, prefix |-> <<Prefixes[next]>>,
                       lit |-> next, err |-> DbErr(next), off |-> p + 1]
                 ELSE IF Prefixes[next] = Vex
                      THEN GetNextVex(data[p + 2], p + 2)
                      ELSE GetNextRepne(data[p + 2], p + 2)
             ELSE GetNextPlain(next, p + 1)

\* GetNext on the buffer at read offset p
GetNext(p) ==
    IF p >= Len(data)
    THEN [opcode |-> <<>>, prefix |-> <<>>, lit |-> 0, err |-> EOFErr,
          off |-> p]
    ELSE LET next == data[p + 1]
         IN  IF next \in DOMAIN Prefixes THEN
                 IF p + 1 >= Len(data)
                 THEN [opcode |-> <<>>, prefix |-> <<Prefixes[next]>>,
                       lit |-> 0, err |-> ErrUnexpectedEOF, off |-> p + 1]
                 ELSE IF Prefixes[next] = Vex
                      THEN GetNextVex(data[p + 2], p + 2)
                      ELSE GetNextRepne(data[p + 2], p + 2)
             ELSE GetNextPlain(next, p + 1)

-----------------------------------------------------------------------------
(* package encoders: Encode.  A result is [inst, off, err].                *)

\* inst.Displacement, err = ParseDisplacement(...); append to the literal
WithDisplacement(inst, d) ==
    [inst |-> [inst EXCEPT !.Displacement = d.bytes,
                           !.Literal = @ \o d.bytes],
     off |-> d.off, err |-> d.err]

\* inst.Immediate, err = ParseImmediate(...); append to the literal
WithImmediate(inst, imm) ==
    [inst |-> [inst EXCEPT !.Immediate = imm.bytes,
                           !.Literal = @ \o imm.bytes],
     off |-> imm.off, err |-> imm.err]

\* inst.Modrm = ParseModRM(next); append it to the literal
WithModrm(inst, modrm) ==
    [inst EXCEPT !.Modrm = <<modrm>>, !.Literal = @ \o <<modrm.Literal>>]

M_Encode(p, inst) ==
    IF p >= Len(data)
    THEN [inst |-> inst, off |-> p, err |-> ErrUnexpectedEOF]
    ELSE WithDisplacement(
             WithModrm(inst, ParseModRM(data[p + 1])),
             ParseDisplacement(<<ParseModRM(data[p + 1])>>, p + 1, 0))

\* lines 82-89: m is what M.Encode returned
MI_After(m) ==
    IF m.err # "" THEN m
    ELSE WithImmediate(m.inst, ParseImmediate(m.off, 4))

MI_Encode(p, inst) == MI_After(M_Encode(p, inst))

I_Encode(p, inst) == WithImmediate(inst, ParseImmediate(p, inst.ImmSize))

OI_Encode(p, inst) == WithImmediate(inst, ParseImmediate(p, 4))

D_Encode(p, inst) ==
    WithDisplacement(inst, ParseDisplacement(inst.Modrm, p, inst.DispSize))

EncoderEncode(enc, p, inst) ==
    CASE enc \in {"M", "MR", "RM"} -> M_Encode(p, inst)
      [] enc \in {"MI", "RMI"} -> MI_Encode(p, inst)
      [] enc \in {"NP", "O"} -> [inst |-> inst, off |-> p, err |-> ""]
      [] enc = "I" -> I_Encode(p, inst)
      [] enc = "OI" -> OI_Encode(p, inst)
      [] enc = "D" -> D_Encode(p, inst)

\* (o *OpCode) Encode
OpCodeEncode(o, p, inst) ==
    EncoderEncode(o.Encoder, p,
                  [inst EXCEPT !.Mnemonic = o.Mnemonic,
                               !.DispSize = o.DispSize,
                               !.ImmSize = o.ImmSize])

(* package encoders: StringifyOperands.  A result is                       *)
(* [str, other, is_offset, err, panics]; panics is the nil dereference of  *)
(* inst.Modrm.Reg, in which case the other fields are never produced.      *)

NoOffset(s) ==
    [str |-> s, other |-> 0, is_offset |-> FALSE, err |-> "", panics |-> FALSE]

NilDeref ==
    [str |-> "", other |-> 0, is_offset |-> FALSE, err |-> "", panics |-> TRUE]

D_StringifyOperands(inst) ==
    LET start == inst.Offset + Len(inst.Literal)
        disp == BytesToIntSigned(inst.Displacement)
        end == start + disp.val
    IN  [str |-> ("offset_" \o Fmt08x(end)) \o "h", other |-> end,
         is_offset |-> TRUE, err |-> disp.err, panics |-> FALSE]

StringifyOperands(enc, inst) ==
    LET rm == StringifyRM(inst.Modrm, inst.Displacement)
        imm == StringifyIntegerBytes(inst.Immediate)
        opreg == Registers[inst.Op % 8]
    IN  CASE enc = "M" -> NoOffset(rm)
          [] enc = "MI" -> NoOffset((rm \o ", ") \o imm)
          [] enc = "MR" ->
                IF inst.Modrm = <<>> THEN NilDeref
                ELSE NoOffset((rm \o ", ") \o Registers[inst.Modrm[1].Reg])
          [] enc = "RM" ->
                IF inst.Modrm = <<>> THEN NilDeref
                ELSE NoOffset((Registers[inst.Modrm[1].Reg] \o ", ") \o rm)
          [] enc = "RMI" ->
                IF inst.Modrm = <<>> THEN NilDeref
                ELSE NoOffset((((Registers[inst.Modrm[1].Reg] \o ", ") \o rm)
                               \o ", ") \o imm)
          [] enc = "NP" -> NoOffset("")
          [] enc = "O" -> NoOffset(opreg)
          [] enc = "I" -> NoOffset(imm)
          [] enc = "OI" -> NoOffset((opreg \o ", ") \o imm)
          [] enc = "D" -> D_StringifyOperands(inst)

-----------------------------------------------------------------------------
(* package main: Parse_Instructions, one action per way an iteration of    *)
(* its loop can end.                                                       *)

\* Instructions[k] = v
Put(map, k, v) == [x \in DOMAIN map \cup {k} |-> IF x = k THEN v ELSE map[x]]

EmptyMap == [x \in {} |-> NewInstruction]

\* a sweep that always starts from a new Instruction
Grab_AlwaysNew(map, k) == NewInstruction

\* Grab the instruction from the master map if it exists, or create a new one.
Grab(map, k) == IF k \in DOMAIN map THEN map[k] ELSE NewInstruction

\* an instruction started without its prefix byte in the literal
Started_NoPrefixByte(inst, g) ==
    [inst EXCEPT !.Offset = offset,
                 !.Pre = g.prefix,
                 !.Op = g.lit,
                 !.Literal = @ \o <<g.lit>>]

\* lines 88-95: the instruction once prefix and opcode byte are appended
Started(inst, g) ==
    [inst EXCEPT !.Offset = offset,
                 !.Pre = g.prefix,
                 !.Op = g.lit,
                 !.Literal = (@ \o (IF g.prefix # <<>>
                                    THEN <<g.prefix[1].Literal>> ELSE <<>>))
                             \o <<g.lit>>]

\* a labelling that always stores a fresh Instruction at other_offset
Labelled_FreshTarget(map, inst, s) ==
    IF ~s.is_offset THEN Put(map, offset, inst)
    ELSE Put(Put(map, s.other,
                 [NewInstruction EXCEPT !.Offset = s.other,
                                        !.Label = inst.Operands]),
             offset, inst)

\* lines 110-122: attach the label at other_offset, then save inst at offset
Labelled(map, inst, s) ==
    IF ~s.is_offset THEN Put(map, offset, inst)
    ELSE IF s.other \in DOMAIN map
    THEN IF s.other = offset
         \* the entry at other_offset is the very object being built
         THEN Put(map, offset, [inst EXCEPT !.Label = inst.Operands])
         ELSE Put([map EXCEPT ![s.other].Label = inst.Operands], offset, inst)
    ELSE Put(Put(map, s.other,
                 [NewInstruction EXCEPT !.Offset = s.other,
                                        !.Label = inst.Operands]),
             offset, inst)

\* lines 72-76, g is what GetNext returned: EOF or UnexpectedEOF, break
Break(g) ==
    /\ g.err \in {EOFErr, ErrUnexpectedEOF}
    /\ pc' = "done"
    /\ dataOff' = g.off
    /\ opcode' = g.opcode
    /\ prefix' = g.prefix
    /\ opcode_literal' = g.lit
    /\ err' = g.err
    /\ UNCHANGED <<data, offset, Instructions, run, firstRun, listing>>

\* a db path that advances offset by the bytes GetNext consumed
Unknown_AdvanceByConsumed(g) ==
    /\ g.err \notin {"", EOFErr, ErrUnexpectedEOF}
    /\ Instructions' =
          Put(Instructions, offset,
              [Grab(Instructions, offset) EXCEPT
                  !.Offset = offset,
                  !.Mnemonic = g.err,
                  !.Literal = @ \o <<g.lit>>])
    /\ offset' = offset + (g.off - dataOff)
    /\ dataOff' = g.off
    /\ opcode' = g.opcode
    /\ prefix' = g.prefix
    /\ opcode_literal' = g.lit
    /\ err' = g.err
    /\ UNCHANGED <<data, pc, run, firstRun, listing>>

\* lines 78-84, g is what GetNext returned: handle unknown OpCode
Unknown(g) ==
    /\ g.err \notin {"", EOFErr, ErrUnexpectedEOF}
    /\ Instructions' =
          Put(Instructions, offset,
              [Grab(Instructions, offset) EXCEPT
                  !.Offset = offset,
                  !.Mnemonic = g.err,
                  !.Literal = @ \o <<g.lit>>])
    /\ offset' = offset + 1
    /\ dataOff' = g.off
    /\ opcode' = g.opcode
    /\ prefix' = g.prefix
    /\ opcode_literal' = g.lit
    /\ err' = g.err
    /\ UNCHANGED <<data, pc, run, firstRun, listing>>

\* lines 97-100, g is what GetNext returned without an error: the result
\* [inst, off, err] of opcode.Encode on the started instruction
Encoded(g) ==
    OpCodeEncode(g.opcode[1], g.off, Started(Grab(Instructions, offset), g))

\* line 106: the result of opcode.Encoder.StringifyOperands
Stringified(g, e) == StringifyOperands(g.opcode[1].Encoder, e.inst)

\* a success path that forgets line 126, offset += len(inst.Literal)
Decode_KeepsOffset(g, e, s) ==
    /\ ~s.panics
    /\ Instructions' =
          Labelled(Instructions, [e.inst EXCEPT !.Operands = s.str], s)
    /\ offset' = offset
    /\ dataOff' = e.off
    /\ opcode' = g.opcode
    /\ prefix' = g.prefix
    /\ opcode_literal' = g.lit
    /\ err' = s.err
    /\ UNCHANGED <<data, pc, run, firstRun, listing>>

\* lines 106-125: StringifyOperands returned s
Decode(g, e, s) ==
    /\ ~s.panics
    /\ Instructions' =
          Labelled(Instructions, [e.inst EXCEPT !.Operands = s.str], s)
    /\ offset' = offset + Len(e.inst.Literal)
    /\ dataOff' = e.off
    /\ opcode' = g.opcode
    /\ prefix' = g.prefix
    /\ opcode_literal' = g.lit
    /\ err' = s.err
    /\ UNCHANGED <<data, pc, run, firstRun, listing>>

\* line 106: StringifyOperands dereferences the nil inst.Modrm; the runtime
\* panic ends the process inside the loop
Panic(g, e, s) ==
    /\ s.panics
    /\ pc' = "panic"
    \* an instruction grabbed from the map was written in place
    /\ Instructions' = IF offset \in DOMAIN Instructions
                       THEN [Instructions EXCEPT ![offset] = e.inst]
                       ELSE Instructions
    /\ dataOff' = e.off
    /\ opcode' = g.opcode
    /\ prefix' = g.prefix
    /\ opcode_literal' = g.lit
    /\ err' = e.err
    /\ UNCHANGED <<data, offset, run, firstRun, listing>>

DecodeEncoded(g, e) == Decode(g, e, Stringified(g, e))

PanicEncoded(g, e) == Panic(g, e, Stringified(g, e))

DecodeGot(g) == g.err = "" /\ DecodeEncoded(g, Encoded(g))

PanicGot(g) == g.err = "" /\ PanicEncoded(g, Encoded(g))

\* an iteration in which GetNext reports EOF or UnexpectedEOF
SweepBreak == pc = "sweep" /\ Break(GetNext(dataOff))

\* an iteration in which GetNext reports any other error
SweepUnknown == pc = "sweep" /\ Unknown(GetNext(dataOff))

\* an iteration in which GetNext, Encode and StringifyOperands return
SweepDecode == pc = "sweep" /\ DecodeGot(GetNext(dataOff))

\* an iteration in which StringifyOperands panics
SweepPanic == pc = "sweep" /\ PanicGot(GetNext(dataOff))

\* a second call of Parse_Instructions on a fresh buffer of the same bytes
ParseAgain ==
    /\ pc = "done"
    /\ run = 1
    /\ run' = 2
    /\ firstRun' = Instructions
    /\ pc' = "sweep"
    /\ dataOff' = 0
    /\ offset' = 0
    /\ opcode' = <<>>
    /\ prefix' = <<>>
    /\ opcode_literal' = 0
    /\ err' = ""
    /\ UNCHANGED <<data, Instructions, listing>>

-----------------------------------------------------------------------------
(* Print_Instructions.  A line is the cells of one Fprintf to the           *)
(* tabwriter, the text between the tabs.                                    *)

\* the least element of a non-empty set of integers
Least(S) == CHOOSE x \in S : \A y \in S : x <= y

RECURSIVE Ascending(_)
\* sort.Slice over distinct integers
Ascending(S) ==
    IF S = {} THEN <<>> ELSE <<Least(S)>> \o Ascending(S \ {Least(S)})

\* lines 135-141: make([]int, len(Instructions)) holds len(Instructions)
\* zeros, the keys are appended behind them, and the whole slice is sorted
SortedOffsets(map) ==
    (Ascending({k \in DOMAIN map : k < 0})
        \o [i \in 1..Cardinality(DOMAIN map) |-> 0])
        \o Ascending({k \in DOMAIN map : k >= 0})

RECURSIVE LiteralText(_)
\* lines 164-167: every byte as %02x and a blank
LiteralText(lit) ==
    IF lit = <<>> THEN ""
    ELSE (Hex2(Head(lit)) \o " ") \o LiteralText(Tail(lit))

\* the mnemonics of the opcode table that contain the verb %s
VerbMnemonics == {"out %s, eax", "sal %s, 1", "sar %s, 1", "shr %s, 1"}

\* fmt.Sprintf(mnemonic, operands) for a mnemonic with one %s
Sprintf_s(mnemonic, operands) ==
    CASE mnemonic = "out %s, eax" -> ("out " \o operands) \o ", eax"
      [] mnemonic = "sal %s, 1" -> ("sal " \o operands) \o ", 1"
      [] mnemonic = "sar %s, 1" -> ("sar " \o operands) \o ", 1"
      [] mnemonic = "shr %s, 1" -> ("shr " \o operands) \o ", 1"

\* lines 169-179
Asm(instruction) ==
    (IF instruction.Pre # <<>> /\ instruction.Pre[1].Mnemonic # ""
     THEN instruction.Pre[1].Mnemonic \o " " ELSE "")
    \o (IF instruction.Mnemonic \in VerbMnemonics
        THEN Sprintf_s(instruction.Mnemonic, instruction.Operands)
        ELSE (instruction.Mnemonic \o " ") \o instruction.Operands)

\* a comment that does not look at the addressing mode
Comment_AnyMode(instruction) ==
    IF /\ instruction.Mnemonic # ""
       /\ \/ instruction.Mnemonic = OpCodesExt[174][7].Mnemonic
          \/ instruction.Mnemonic = OpCodes[141].Mnemonic
       /\ instruction.Modrm # <<>>
    THEN "; Illegal addressing mode." ELSE ""

\* lines 181-188: check for illegal addressing modes
Comment(instruction) ==
    IF /\ instruction.Mnemonic # ""
       /\ \/ instruction.Mnemonic = OpCodesExt[174][7].Mnemonic
          \/ instruction.Mnemonic = OpCodes[141].Mnemonic
       /\ instruction.Modrm # <<>>
       /\ instruction.Modrm[1].Mod = AM_DIRECT
    THEN "; Illegal addressing mode." ELSE ""

\* lines 158-160: "%s:\t\t\t\n"
LabelLine(instruction) ==
    [kind |-> "label", cells |-> <<instruction.Label \o ":", "", "", "">>]

\* lines 162-190: "%s\t%s\t%s\t%s\n"
CodeLine(instruction) ==
    [kind |-> "code",
     cells |-> <<Fmt08x(instruction.Offset) \o ":",
                 LiteralText(instruction.Literal),
                 Asm(instruction),
                 Comment(instruction)>>]

\* lines 158-190: the lines of one instruction that is not skipped
LinesOf(instruction) ==
    (IF instruction.Label # "" THEN <<LabelLine(instruction)>> ELSE <<>>)
    \o <<CodeLine(instruction)>>

\* a loop test that skips only what it has visited
Skipped_VisitedOnly(map, o, visited) == o \in visited

\* line 154: len(instruction.Literal) == 0 || visited[offset]
Skipped(map, o, visited) == map[o].Literal = <<>> \/ o \in visited

RECURSIVE Listed(_, _, _, _)
\* lines 151-194: the loop over offsets; Instructions[offset] of a key the
\* map does not hold is nil, and line 154 dereferences it
Listed(map, offsets, visited, out) ==
    IF offsets = <<>> THEN [out |-> out, panics |-> FALSE]
    ELSE IF Head(offsets) \notin DOMAIN map
    THEN [out |-> out, panics |-> TRUE]
    ELSE IF Skipped(map, Head(offsets), visited)
    THEN Listed(map, Tail(offsets), visited, out)
    ELSE Listed(map, Tail(offsets), visited \cup {Head(offsets)},
                out \o LinesOf(map[Head(offsets)]))

\* the deferred Flush writes what the loop produced
Flushed(r) ==
    /\ listing' = r.out
    /\ pc' = IF r.panics THEN "panic" ELSE "printed"
    /\ UNCHANGED <<data, dataOff, offset, Instructions, opcode, prefix,
                   opcode_literal, err, run, firstRun>>

\* main line 51, after Parse_Instructions returned
Print_Instructions ==
    /\ pc = "done"
    /\ Flushed(Listed(Instructions, SortedOffsets(Instructions), {}, <<>>))

-----------------------------------------------------------------------------
(* the inputs *)

\* bytes for short inputs: unknown 00 (ModR/M mod 0), 05 (I; ModR/M mod 0
\* rm 5), the prefixes 0F and F2, 40 and 47 (O; ModR/M mod 1), 85 (MR, and D
\* behind 0F), 8D (RM), 90 (NP), AE and D1 (extension-bearing), B8 (OI;
\* ModR/M mod 2 reg 7), EB (D), FE (displacement -2; ModR/M mod 3 reg 7)
WideBytes == {0, 5, 15, 64, 71, 133, 141, 144, 174, 184, 209, 235, 242, 254}

\* bytes for long inputs: the instructions with 32-bit fields
NarrowBytes == {0, 15, 133, 232, 255}

SeqsUpTo(S, n) == UNION {[1..k -> S] : k \in 0..n}

\* nop and the short jump with displacements that reach backwards
BackBytes == {144, 235, 252, 253}

Inputs ==
    SeqsUpTo(WideBytes, MaxLenWide) \cup SeqsUpTo(NarrowBytes, MaxLenNarrow)
        \cup SeqsUpTo(BackBytes, MaxLenBack)

Init ==
    /\ data \in Inputs
    /\ dataOff = 0
    /\ offset = 0
    /\ Instructions = EmptyMap
    /\ opcode = <<>>
    /\ prefix = <<>>
    /\ opcode_literal = 0
    /\ err = ""
    /\ pc = "sweep"
    /\ run = 1
    /\ firstRun = EmptyMap
    /\ listing = <<>>

Next ==
    SweepBreak \/ SweepUnknown \/ SweepDecode \/ SweepPanic
        \/ Print_Instructions

Spec == Init /\ [][Next]_vars

NextTwice == Next \/ ParseAgain

SpecTwice == Init /\ [][NextTwice]_vars

-----------------------------------------------------------------------------
(* ParseDisplacement on its own: the instruction under construction is the  *)
(* entry at key 0, the buffer stands at any read offset.                    *)

\* one ModR/M byte per pair of mod and rm = EBP / rm # EBP
ModrmBytes == {0, 5, 64, 69, 128, 133, 192, 197}

\* the sizes the opcode table and M.Encode pass
DispSizes == {0, 1, 2, 4}

DispModrms == {<<>>} \cup {<<ParseModRM(b)>> : b \in ModrmBytes}

InitDisp ==
    /\ data \in SeqsUpTo(BackBytes, MaxLenBack)
    /\ dataOff \in 0..Len(data)
    /\ offset = 0
    /\ \E m \in DispModrms, size \in DispSizes :
          Instructions = Put(EmptyMap, 0,
                             [NewInstruction EXCEPT !.Modrm = m,
                                                    !.DispSize = size])
    /\ opcode = <<>>
    /\ prefix = <<>>
    /\ opcode_literal = 0
    /\ err = ""
    /\ pc = "call"
    /\ run = 1
    /\ firstRun = EmptyMap
    /\ listing = <<>>

\* D.Encode: the call of ParseDisplacement and the append to the literal
CallParseDisplacement ==
    /\ pc = "call"
    /\ pc' = "returned"
    /\ Instructions' = Put(Instructions, 0, D_Encode(dataOff, Instructions[0]).inst)
    /\ dataOff' = D_Encode(dataOff, Instructions[0]).off
    /\ err' = D_Encode(dataOff, Instructions[0]).err
    /\ UNCHANGED <<data, offset, opcode, prefix, opcode_literal, run, firstRun, listing>>

NextDisp == CallParseDisplacement

SpecDisp == InitDisp /\ [][NextDisp]_vars

-----------------------------------------------------------------------------
(* Properties of the sweep *)

RECURSIVE SumLiterals(_, _)
\* the sum of len(literal) over the entries of map under the keys in S
SumLiterals(map, S) ==
    IF S = {} THEN 0
    ELSE LET k == CHOOSE x \in S : TRUE
         IN  Len(map[k].Literal) + SumLiterals(map, S \ {k})

\* the entry was decoded through a record of D encoding
IsD(i) ==
    /\ i.Literal # <<>>
    /\ \E n \in DOMAIN allOps :
          /\ allOps[n].Encoder = "D"
          /\ allOps[n].Literal = i.Op
          /\ allOps[n].PrefixReq = (i.Pre = <<Vex>>)
          /\ allOps[n].Mnemonic = i.Mnemonic

\* C1: an iteration that ends in a db-family error consumes exactly one
\* byte of the buffer, so that after offset += 1 the read offset of the
\* buffer equals offset.
C1_DbConsumesOneByte ==
    [][IsDb(err') => (dataOff' = dataOff + 1 /\ dataOff' = offset')]_vars

\* C2: every entry with a non-empty literal holds exactly the input bytes
\* at positions offset .. offset+len(literal)-1.
C2_LiteralIsInputSlice ==
    \A k \in DOMAIN Instructions :
        LET i == Instructions[k]
        IN  i.Literal # <<>> =>
                /\ k >= 0
                /\ k + Len(i.Literal) <= Len(data)
                /\ i.Literal = SubSeq(data, k + 1, k + Len(i.Literal))

OBases == {64, 72, 80, 88, 184}

\* C3: an unprefixed opcode byte in B..B+7, for an O or OI base B, is
\* recorded with the mnemonic of B and the register (byte & 7) as its
\* first operand, never as a db pseudo-instruction.
C3_ORunOfEight ==
    \A k \in DOMAIN Instructions : \A B \in OBases :
        LET i == Instructions[k]
        IN  (/\ i.Literal # <<>>
             /\ i.Pre = <<>>
             /\ i.Literal[1] \in B..(B + 7)) =>
                /\ i.Literal[1] \in DOMAIN OpCodes
                /\ i.Mnemonic = OpCodes[B].Mnemonic
                /\ i.Operands \in
                      {Registers[i.Literal[1] % 8],
                       (Registers[i.Literal[1] % 8] \o ", ")
                           \o StringifyIntegerBytes(i.Immediate)}

\* C4: after the sweep every recorded D instruction has an entry at
\* offset + len(literal) + signed(displacement) whose label is the
\* offset_XXXXXXXXh rendering of that target, the instruction's own
\* offset included.
C4_BranchTargetLabelled ==
    pc = "done" =>
        \A k \in DOMAIN Instructions :
            LET i == Instructions[k]
                t == k + Len(i.Literal) + BytesToIntSigned(i.Displacement).val
            IN  IsD(i) =>
                    /\ t \in DOMAIN Instructions
                    /\ Instructions[t].Label = ("offset_" \o Fmt08x(t)) \o "h"

\* the iteration about to run finds the buffer exhausted inside GetNext:
\* the input ends with a prefix byte, with an extension-bearing opcode byte,
\* or with 0F AE
EOFInGetNext ==
    /\ pc = "sweep"
    /\ \/ /\ dataOff + 1 = Len(data)
          /\ data[dataOff + 1] \in DOMAIN Prefixes \cup ExtKeys
       \/ /\ dataOff + 2 = Len(data)
          /\ data[dataOff + 1] = Vex.Literal
          /\ data[dataOff + 2] = 174

\* the iteration about to run finds the buffer exhausted inside Encode
EncodeHitsEOF(g) == g.err = "" /\ Encoded(g).err = ErrUnexpectedEOF

EOFInEncode == pc = "sweep" /\ EncodeHitsEOF(GetNext(dataOff))

NothingRecordedAtOffset ==
    /\ pc' = "done"
    /\ \/ offset \notin DOMAIN Instructions'
       \/ Instructions'[offset].Literal = <<>>

\* C5 as stated: wherever the buffer runs out after the first byte of an
\* instruction, the sweep terminates and records no instruction with a
\* non-empty literal at that offset.
C5_NoPartialInstruction ==
    [][(EOFInGetNext \/ EOFInEncode) => NothingRecordedAtOffset]_vars

\* C5, amended: when the buffer runs out inside GetNext (after a prefix
\* byte or after an extension-bearing opcode byte), the sweep terminates
\* and records no instruction with a non-empty literal at that offset.
C5_NoPartialInstructionFromGetNext ==
    [][EOFInGetNext => NothingRecordedAtOffset]_vars

\* the sweep stopped on a prefix byte or extension-bearing opcode byte that
\* ends the input, at an offset that holds a label-only placeholder
C5_Witness ==
    /\ pc = "done"
    /\ err = ErrUnexpectedEOF
    /\ offset \in DOMAIN Instructions
    /\ Instructions[offset].Label # ""
    /\ Len(data) = offset + 1

\* C6: the sweep never ends abnormally.
C6_SweepNeverAborts == pc # "panic"

\* C7: when the sweep terminates, the literal lengths of all entries plus
\* the bytes consumed by a final iteration that ended in UnexpectedEOF add
\* up to the length of the input.
C7_BytesAccountedFor ==
    [][pc' = "done" =>
          SumLiterals(Instructions', DOMAIN Instructions')
            + (IF err' = ErrUnexpectedEOF THEN dataOff' - dataOff ELSE 0)
          = Len(data)]_vars

\* the sweep is at an offset that holds a label-only placeholder
PlaceholderAtOffset ==
    /\ pc = "sweep"
    /\ offset \in DOMAIN Instructions
    /\ Instructions[offset].Literal = <<>>
    /\ Instructions[offset].Label # ""

\* C8: an iteration that records an instruction (decoded or db) at an
\* offset holding a label-only placeholder records it under that offset
\* with the placeholder's label.
C8_PlaceholderMerged ==
    [][(PlaceholderAtOffset /\ offset' # offset) =>
          /\ offset \in DOMAIN Instructions'
          /\ Instructions'[offset].Label = Instructions[offset].Label
          /\ Instructions'[offset].Literal # <<>>
          /\ Instructions'[offset].Offset = offset]_vars

\* a forward branch at j labelled k before the sweep decoded k
C8_Witness ==
    \E j, k \in DOMAIN Instructions :
        /\ j < k
        /\ IsD(Instructions[j])
        /\ Instructions[j].Operands = Instructions[k].Label
        /\ Instructions[k].Literal # <<>>
        /\ Instructions[k].Offset = k

\* C9: a second Parse_Instructions over the same bytes leaves the map as
\* the first left it.
C9_SecondRunSameMap ==
    (run = 2 /\ pc = "done") => Instructions = firstRun

\* the read offset of the opcode byte the iteration about to run dispatches
\* on: behind a prefix byte if there is one
OpAt ==
    IF dataOff + 2 <= Len(data) /\ data[dataOff + 1] \in DOMAIN Prefixes
    THEN dataOff + 1 ELSE dataOff

\* the iteration about to run dispatches on an extension-bearing opcode
\* byte (as 0F AE, or with no prefix or F2 before it) whose ModR/M byte
\* names a slot that is not installed
BadExtension ==
    /\ pc = "sweep"
    /\ OpAt + 2 <= Len(data)
    /\ data[OpAt + 1] \in ExtKeys
    /\ (OpAt # dataOff /\ data[dataOff + 1] = Vex.Literal)
          => data[OpAt + 1] = 174
    /\ ParseModRM(data[OpAt + 2]).Reg \notin DOMAIN OpCodesExt[data[OpAt + 1]]

\* C10: a bad extension records 'db <opcode byte>' and leaves the buffer
\* at the ModR/M byte, which the next GetNext reads first.
C10_BadExtensionPutsBack ==
    [][BadExtension =>
          /\ pc' = "sweep"
          /\ Instructions'[offset].Mnemonic = DbErr(data[OpAt + 1])
          /\ dataOff' = OpAt + 1]_vars

\* a db for an unprefixed extension-bearing byte was just recorded and the
\* buffer stands at its ModR/M byte
C10_Witness ==
    /\ pc = "sweep"
    /\ prefix = <<>>
    /\ opcode_literal \in ExtKeys
    /\ err = DbErr(opcode_literal)
    /\ dataOff >= 1
    /\ dataOff < Len(data)
    /\ data[dataOff] = opcode_literal
    /\ ParseModRM(data[dataOff + 1]).Reg \notin DOMAIN OpCodesExt[opcode_literal]
    /\ Instructions[offset - 1].Mnemonic = err

\* the iteration about to run reads 0F and then a byte that resolves to no
\* record: not in OpCodesPrefixed and either not AE, or AE before a ModR/M
\* whose reg slot is not installed
VexMiss ==
    /\ pc = "sweep"
    /\ dataOff + 2 <= Len(data)
    /\ data[dataOff + 1] = Vex.Literal
    /\ data[dataOff + 2] \notin DOMAIN OpCodesPrefixed
    /\ data[dataOff + 2] = 174 =>
          /\ dataOff + 3 <= Len(data)
          /\ ParseModRM(data[dataOff + 3]).Reg \notin DOMAIN OpCodesExt[174]

\* C11: on a miss behind 0F, GetNext unreads the byte and returns 'db 0f';
\* the sweep records the db at the offset of the 0F byte, advances one byte
\* and the next iteration starts decoding at the byte behind 0F.
C11_VexMissIsDb0f ==
    [][VexMiss =>
          /\ pc' = "sweep"
          /\ err' = DbErr(Vex.Literal)
          /\ Instructions'[offset].Mnemonic = DbErr(Vex.Literal)
          /\ Instructions'[offset].Offset = offset
          /\ offset' = offset + 1
          /\ dataOff' = dataOff + 1]_vars

\* C12: an entry with mnemonic clflush was decoded from 0F AE and a ModR/M
\* with reg = 7; an unprefixed AE never gives clflush.
C12_ClflushNeedsPrefix ==
    \A k \in DOMAIN Instructions :
        LET i == Instructions[k]
        IN  i.Mnemonic = "clflush" =>
                /\ Len(i.Literal) >= 3
                /\ i.Literal[1] = Vex.Literal
                /\ i.Literal[2] = 174
                /\ ParseModRM(i.Literal[3]).Reg = 7
                /\ i.Pre = <<Vex>>

\* the literal begins with the prefix byte, if any, and then Op
StartsWithPrefixAndOp(i) ==
    IF i.Pre # <<>>
    THEN /\ Len(i.Literal) >= 2
         /\ i.Literal[1] = i.Pre[1].Literal
         /\ i.Literal[2] = i.Op
    ELSE /\ Len(i.Literal) >= 1
         /\ i.Literal[1] = i.Op

\* C13 as stated: every instruction the sweep recorded, db included, has
\* a literal that begins with its prefix byte, if set, and then its Op.
C13_LiteralStartsWithOp ==
    \A k \in DOMAIN Instructions :
        Instructions[k].Mnemonic # "" =>
            StartsWithPrefixAndOp(Instructions[k])

\* C13, amended: every instruction the sweep recorded has a non-empty
\* literal; that of a decoded instruction begins with its prefix byte, if
\* set, and then its Op; a db pseudo-instruction has a literal of one byte
\* and neither Op nor prefix set.
C13_DecodedLiteralStartsWithOp ==
    \A k \in DOMAIN Instructions :
        LET i == Instructions[k]
        IN  i.Mnemonic # "" =>
                IF IsDb(i.Mnemonic)
                THEN Len(i.Literal) = 1 /\ i.Op = 0 /\ i.Pre = <<>>
                ELSE StartsWithPrefixAndOp(i)

\* a prefixed decoded instruction and a db of a non-zero byte are recorded
C13_Witness ==
    \E j, k \in DOMAIN Instructions :
        /\ Instructions[j].Pre # <<>>
        /\ ~IsDb(Instructions[j].Mnemonic)
        /\ Len(Instructions[j].Literal) >= 2
        /\ IsDb(Instructions[k].Mnemonic)
        /\ Instructions[k].Literal[1] # 0

\* the keys of the entries with a non-empty literal
Emitted == {k \in DOMAIN Instructions : Instructions[k].Literal # <<>>}

\* j follows i among the entries with a non-empty literal
AdjacentEmitted(i, j) ==
    /\ i \in Emitted
    /\ j \in Emitted
    /\ i < j
    /\ \A k \in Emitted : ~(i < k /\ k < j)

\* C14: entries with a non-empty literal that are adjacent in ascending
\* offset order neither overlap nor leave a gap.
C14_NoGapNoOverlap ==
    \A i, j \in DOMAIN Instructions :
        AdjacentEmitted(i, j) => j = i + Len(Instructions[i].Literal)

\* the sweep is over and recorded a db right behind an instruction of
\* several bytes, and another instruction right behind the db
C14_Witness ==
    /\ pc = "done"
    /\ \E i, j, k \in DOMAIN Instructions :
          /\ AdjacentEmitted(i, j)
          /\ AdjacentEmitted(j, k)
          /\ Len(Instructions[i].Literal) >= 2
          /\ IsDb(Instructions[j].Mnemonic)

\* C16: an iteration that does not end the sweep starts at an offset that
\* holds no decoded bytes yet and strictly increases offset, by the length
\* (>= 1) of the literal it records there, which is 1 on a db error.
C16_SweepMovesForward ==
    [][pc = "sweep" /\ pc' = "sweep" =>
          /\ offset \in DOMAIN Instructions =>
                Instructions[offset].Literal = <<>>
          /\ offset \in DOMAIN Instructions'
          /\ Len(Instructions'[offset].Literal) >= 1
          /\ offset' = offset + Len(Instructions'[offset].Literal)
          /\ offset' > offset
          /\ IsDb(Instructions'[offset].Mnemonic) => offset' = offset + 1]_vars

\* the sweep is still running after a db iteration and a successful
\* iteration that recorded several bytes
C16_Witness ==
    /\ pc = "sweep"
    /\ \E j, k \in DOMAIN Instructions :
          /\ IsDb(Instructions[j].Mnemonic)
          /\ j + 1 <= offset
          /\ ~IsDb(Instructions[k].Mnemonic)
          /\ Len(Instructions[k].Literal) >= 2
          /\ k + Len(Instructions[k].Literal) <= offset

\* every entry carries its key, and a label is the rendering of the key
KeyedAndLabelled(map) ==
    \A k \in DOMAIN map :
        /\ map[k].Offset = k
        /\ map[k].Label # "" =>
              map[k].Label = ("offset_" \o Fmt08x(k)) \o "h"

\* the entry at k held decoded bytes and this step gives it a label
LabelAttached(k) ==
    /\ k \in DOMAIN Instructions
    /\ Instructions[k].Literal # <<>>
    /\ k \in DOMAIN Instructions'
    /\ Instructions'[k].Label # Instructions[k].Label

\* C19: in every state of a sweep each map entry has Offset equal to its key
\* and a non-empty Label equal to the offset_XXXXXXXXh rendering of that key;
\* a step that attaches a label to an entry holding a decoded instruction
\* changes nothing of the entry but the Label.
C19_KeyedEntriesLabelOnly ==
    [][/\ KeyedAndLabelled(Instructions)
       /\ KeyedAndLabelled(Instructions')
       /\ \A k \in DOMAIN Instructions :
             Instructions[k].Literal # <<>> =>
                /\ k \in DOMAIN Instructions'
                /\ [Instructions'[k] EXCEPT !.Label = Instructions[k].Label]
                      = Instructions[k]]_vars

\* an instruction decoded earlier in the sweep has become the target of a
\* later branch and now carries the label of its own offset
C19_Witness ==
    \E k \in DOMAIN Instructions :
        /\ Instructions[k].Literal # <<>>
        /\ k + Len(Instructions[k].Literal) < offset
        /\ Instructions[k].Label = ("offset_" \o Fmt08x(k)) \o "h"
        /\ Instructions[k].Offset = k
        /\ Instructions[k].Mnemonic # ""

-----------------------------------------------------------------------------
(* Properties of ParseDisplacement *)

\* the number of bytes a displacement takes
RequiredDisp(modrm, fallback_size) ==
    IF modrm = <<>> THEN fallback_size
    ELSE CASE modrm[1].Mod = AM_REG ->
                 IF modrm[1].RM = REG_EBP THEN 4 ELSE 0
           [] modrm[1].Mod = AM_BYTE_OFFSET -> 1
           [] modrm[1].Mod = AM_DWORD_OFFSET -> 4
           [] modrm[1].Mod = AM_DIRECT -> 0

\* the call succeeded, consumed exactly need bytes and returned them
DispTaken(need) ==
    /\ err' = ""
    /\ dataOff' = dataOff + need
    /\ Instructions'[0].Displacement = SubSeq(data, dataOff + 1, dataOff + need)

\* C17: ParseDisplacement needs 4 bytes for mod=Reg with rm=5, none for
\* mod=Reg with another rm and for mod=Direct, 1 for mod=Byte, 4 for
\* mod=Dword and fallback_size without a ModR/M; it returns UnexpectedEOF
\* when fewer bytes remain, and otherwise succeeds and consumes exactly
\* that many bytes.
C17_DisplacementSize ==
    [][pc = "call" /\ pc' = "returned" =>
          IF Len(data) - dataOff
                < RequiredDisp(Instructions[0].Modrm, Instructions[0].DispSize)
          THEN err' = ErrUnexpectedEOF /\ dataOff' <= Len(data)
          ELSE DispTaken(RequiredDisp(Instructions[0].Modrm,
                                      Instructions[0].DispSize))]_vars

\* a call with mod=Reg and rm=5 has returned four bytes
C17_Witness ==
    /\ pc = "returned"
    /\ Instructions[0].Modrm # <<>>
    /\ Instructions[0].Modrm[1].Mod = AM_REG
    /\ Instructions[0].Modrm[1].RM = REG_EBP
    /\ err = ""
    /\ Len(Instructions[0].Displacement) = 4
    /\ dataOff >= 4

-----------------------------------------------------------------------------
(* Properties of the listing *)

IsCode(line) == line.kind = "code"

\* the code lines of the listing, in the order they were written
CodeLines == SelectSeq(listing, IsCode)

\* the mnemonic is clflush or lea and the ModR/M mod field is Direct
IllegalMode(i) ==
    /\ i.Mnemonic \in {"clflush", "lea"}
    /\ i.Modrm # <<>>
    /\ i.Modrm[1].Mod = 3

\* line is the code line written for the entry at k
CodeLineOf(line, k) ==
    /\ line.kind = "code"
    /\ line.cells[1] = Fmt08x(k) \o ":"
    /\ line.cells[2] = LiteralText(Instructions[k].Literal)

\* C15: a line of the listing carries the comment
\* "; Illegal addressing mode." if and only if it is the code line of an
\* instruction whose mnemonic is clflush or lea and whose ModR/M mod field
\* is Direct; no other line, and no db line, carries it.
C15_IllegalModeComment ==
    pc = "printed" =>
        \A n \in 1..Len(listing) :
            IF listing[n].kind = "code"
            THEN \E k \in Emitted :
                    /\ CodeLineOf(listing[n], k)
                    /\ IF IllegalMode(Instructions[k])
                       THEN listing[n].cells[4] = "; Illegal addressing mode."
                       ELSE listing[n].cells[4] = ""
                    /\ IsDb(Instructions[k].Mnemonic) =>
                          listing[n].cells[4] = ""
            ELSE listing[n].cells[4] = ""

\* the listing holds a lea or clflush in Direct mode with the comment and a
\* lea or clflush in a memory mode without it
C15_Witness ==
    /\ pc = "printed"
    /\ \E a, b \in Emitted :
          /\ IllegalMode(Instructions[a])
          /\ Instructions[b].Mnemonic \in {"clflush", "lea"}
          /\ ~IllegalMode(Instructions[b])
          /\ \E n \in 1..Len(listing) :
                /\ CodeLineOf(listing[n], a)
                /\ listing[n].cells[4] = "; Illegal addressing mode."

=============================================================================
